---- MODULE Spec2Model ----
(***************************************************************************)
(* Model of gopro-transfer: the transfer engine of                         *)
(* src/src/gopro_transfer/transfer/operations.py, the filename classifier  *)
(* and volume scanner of src/src/gopro_transfer/media_info.py and the      *)
(* telemetry exporter of src/src/gopro_transfer/telemetry.py.              *)
(*                                                                         *)
(* Spec           transfer_files run (and re-run) against a source volume  *)
(*                and a destination tree, with an environment that can     *)
(*                make a copy fail or delete a source file.                *)
(* SpecParse      parse_gopro_filename applied to bounded filenames.       *)
(* SpecTelemetry  save_telemetry / TelemetryData.to_json applied to        *)
(*                bounded TelemetryData objects.                           *)
(* SpecExtract    extract_telemetry applied to videos whose container      *)
(*                parser can fail at every point it is called.             *)
(* SpecScan       get_gopro_folder_structure applied to volumes with       *)
(*                stray entries in the container directory.                *)
(* SpecSelect     transfer_files called with caller-supplied folder and    *)
(*                extensions on a volume with more kinds of files.         *)
(* SpecConcurrent two transfer_files invocations interleaved on the same   *)
(*                card and destination.                                    *)
(* SpecInterrupted transfer_files terminated in the middle of a copy and   *)
(*                run again.                                               *)
(* SpecCommand    GoProTransfer.transfer of src/src/gopro_transfer/main.py *)
(*                with its own transfer_files and its telemetry loop.      *)
(***************************************************************************)
EXTENDS Integers, Sequences, FiniteSets, TLC

VARIABLES
    settings,       \* configuration snapshot returned by get_settings()
    has_birthtime,  \* hasattr(stat_info, "st_birthtime") on this platform
    srcRoot,        \* kind of the source root path: "dir" or "absent"
    dcim,           \* kind of <root>/DCIM: "dir" or "absent"
    folders,        \* names of the directories directly inside DCIM
    case_sensitive, \* whether the volume's name lookup is case-sensitive
    dcim_other,     \* entries in DCIM that are not its subdirectories
    src,            \* source files: [folder, name] -> stat record
    src0,           \* the source files before the first invocation
    dstDirs,        \* directories under the destination (<<>> is the root)
    dst,            \* destination files: <<dir, name>> -> content
    dst0,           \* the destination files before the first invocation
    args,           \* the arguments every transfer_files call is made with
    pc,             \* per caller: position inside transfer_files
    media_files,    \* per caller: the list the transfer loop iterates over
    candidates,     \* per caller: the list get_media_files returned
    idx,            \* per caller: 1-based index of the loop's current file
    dest_file,      \* per caller: dest_file of the loop's current file
    transferred,    \* per caller: transferred_files of the running call
    outcome,        \* per caller: per-file log of the running call
    results,        \* per caller: what each finished call returned
    faults,         \* number of environment faults injected so far
    filename,       \* SpecParse: the argument of parse_gopro_filename
    info,           \* SpecParse: the dict it returned
    parse_pc,       \* SpecParse: "call", "returned" or "raised"
    telemetry,      \* SpecTelemetry: the TelemetryData object
    formats,        \* SpecTelemetry: the formats argument
    files_written,  \* SpecTelemetry: files written, name -> content
    output_files,   \* SpecTelemetry: the mapping save_telemetry returned
    tel_pc,         \* SpecTelemetry: "call" or "returned"
    video,          \* SpecExtract: the video file and what its parser does
    extracted,      \* SpecExtract: the TelemetryData extract_telemetry returned
    extract_exc,    \* SpecExtract: the exception that escaped, "" if none
    extract_pc,     \* SpecExtract: "call", "returned" or "raised"
    structure,      \* SpecScan: the dict get_gopro_folder_structure returned
    scan_pc,        \* SpecScan: "call" or "returned"
    cmd_pc,         \* SpecCommand: position inside GoProTransfer.transfer
    extract_tel,    \* SpecCommand: the extract_tel argument
    tel_idx,        \* SpecCommand: 1-based index of the telemetry loop
    tel_log,        \* SpecCommand: the extractions attempted, in order
    cmd_rc          \* SpecCommand: <<>> or the value transfer returned

transferVars == <<settings, has_birthtime, srcRoot, dcim, folders,
                  case_sensitive, dcim_other, src, src0,
                  dstDirs, dst, dst0, args, pc, media_files, candidates, idx,
                  dest_file, transferred, outcome, results, faults>>
parseVars == <<filename, info, parse_pc>>
telemetryVars == <<telemetry, formats, files_written, output_files, tel_pc>>
extractVars == <<video, extracted, extract_exc, extract_pc>>
scanVars == <<structure, scan_pc>>
commandVars == <<cmd_pc, extract_tel, tel_idx, tel_log, cmd_rc>>
vars == <<transferVars, parseVars, telemetryVars, extractVars, scanVars,
          commandVars>>

(***************************************************************************)
(* Bounds of the model.                                                    *)
(***************************************************************************)
MaxDay == 2
MaxRuns == 2
MaxFaults == 1
MaxDigits == 7
MaxSamples == 2

(***************************************************************************)
(* Generic helpers.                                                        *)
(***************************************************************************)
Front(s) == SubSeq(s, 1, Len(s) - 1)
Last(s) == s[Len(s)]
Range(s) == {s[i] : i \in 1..Len(s)}
EmptyMap == <<>>

DigitChars == <<"0", "1", "2", "3", "4", "5", "6", "7", "8", "9">>
UpperChars == {"A", "B", "C", "D", "E", "F", "G", "H", "I", "J", "K", "L",
               "M", "N", "O", "P", "Q", "R", "S", "T", "U", "V", "W", "X",
               "Y", "Z"}

\* \d and str.isdigit() on the characters of the model.
isdigit(ch) == ch \in Range(DigitChars)
AllDigits(s) == \A i \in 1..Len(s) : isdigit(s[i])

(***************************************************************************)
(* Time.  A timestamp counts half days: day d, time of day t.  datetime's  *)
(* date() drops the time of day; strftime renders the date with the        *)
(* format, giving the path components of the date folder (every modelled   *)
(* day lies in January 2024).                                              *)
(***************************************************************************)
TimesOfDay == {0, 1}
TicksPerDay == Cardinality(TimesOfDay)
Days == 1..MaxDay
Timestamps == {d * TicksPerDay + t : d \in Days, t \in TimesOfDay}
MaxTime == MaxDay * TicksPerDay + TicksPerDay - 1
Now == MaxTime
NoDate == 0

\* Faulty variant of date: the time of day is kept.
date_with_time(ts) == ts

date(ts) == ts \div TicksPerDay

DefaultDateFormat == "%Y-%m-%d"
NestedDateFormat == "%Y/%m/%d"

strftime(ts, fmt) ==
    IF fmt = NestedDateFormat
    THEN << [text |-> "2024", day |-> 0], [text |-> "01", day |-> 0],
            [text |-> "", day |-> date(ts)] >>
    ELSE << [text |-> "2024-01-", day |-> date(ts)] >>

(***************************************************************************)
(* The source volume.                                                      *)
(***************************************************************************)
Folders == {"100GOPRO", "101GOPRO"}
Names == {"GOPR0001.MP4", "GOPR0002.JPG"}
Paths == { [folder |-> "100GOPRO", name |-> "GOPR0001.MP4"],
           [folder |-> "100GOPRO", name |-> "GOPR0002.JPG"],
           [folder |-> "101GOPRO", name |-> "GOPR0001.MP4"] }

\* The suffix a glob pattern "*<ext>" compares against.
Suffix(name) ==
    CASE name = "GOPR0002.JPG" -> ".JPG"
      [] name = "GOPR0003.mp4" -> ".mp4"
      [] name = "GOPR0004.THM" -> ".THM"
      [] OTHER -> ".MP4"

\* The stat records a source file can have: a file written in the morning
\* of any day and not modified since, or a file written in the morning of
\* the first day and last modified in the afternoon of the last day.
FileStats ==
    { [st_birthtime |-> d * TicksPerDay, st_mtime |-> d * TicksPerDay] :
        d \in Days }
    \cup { [st_birthtime |-> TicksPerDay, st_mtime |-> MaxTime] }

\* A file written in the morning of the last day, the day of the file the
\* destination can hold already.
LastDayStat == [st_birthtime |-> MaxDay * TicksPerDay,
                st_mtime |-> MaxDay * TicksPerDay]

DefaultFileExtensions == <<".MP4", ".JPG", ".RAW">>
DefaultMediaDir == "100GOPRO"

Callers == {"c1", "c2"}

(***************************************************************************)
(* Volume Scanner and Media Selector.                                      *)
(***************************************************************************)
\* get_gopro_mount_path: the path when it exists and is a directory.
get_gopro_mount_path == srcRoot = "dir"

\* The characters of the names an entry of DCIM can have.
EntryChars(n) ==
    CASE n = "100GOPRO" -> <<"1", "0", "0", "G", "O", "P", "R", "O">>
      [] n = "101GOPRO" -> <<"1", "0", "1", "G", "O", "P", "R", "O">>
      [] n = "102GOPRO" -> <<"1", "0", "2", "G", "O", "P", "R", "O">>
      [] n = "103GOPRO" -> <<"1", "0", "3", "G", "O", "P", "R", "O">>
      [] n = "100GOPRO_OLD" -> <<"1", "0", "0", "G", "O", "P", "R", "O",
                                 "_", "O", "L", "D">>
      [] n = "10GOPRO" -> <<"1", "0", "G", "O", "P", "R", "O">>
      [] n = "MISC" -> <<"M", "I", "S", "C">>
      [] n = "NOTES.TXT" -> <<"N", "O", "T", "E", "S", ".", "T", "X", "T">>

\* re.match(r"\d{3}GOPRO", item.name): the pattern is matched at the start
\* of the name and the name may go on after it.
IsGoproFolderName(n) ==
    LET s == EntryChars(n)
    IN  /\ Len(s) >= 8
        /\ \A i \in 1..3 : isdigit(s[i])
        /\ SubSeq(s, 4, 8) = <<"G", "O", "P", "R", "O">>

\* Faulty variant of dcim_is_dir: the is_dir() test is lost.
dcim_is_dir_any_entry ==
    dcim \in {"dir", "file"} \/ (dcim = "dir_other_case" /\ ~case_sensitive)

\* dcim_path.exists() and dcim_path.is_dir(): the name DCIM is looked up by
\* the volume's file system, which on a case-insensitive volume finds an
\* entry spelled in another letter case.
dcim_is_dir ==
    dcim = "dir" \/ (dcim = "dir_other_case" /\ ~case_sensitive)

\* dcim_path.iterdir(): the immediate entries of DCIM, directories and
\* regular files; a directory nested deeper is not among them.
iterdir ==
    {[name |-> f, is_dir |-> TRUE] : f \in folders}
    \cup {[name |-> e.name, is_dir |-> FALSE] :
             e \in {x \in dcim_other : x.kind = "file"}}

\* media_dir.glob(f"*{ext}"): the files directly inside the folder whose
\* name ends with ext.
glob(folder, ext) ==
    {p \in DOMAIN src : p.folder = folder /\ Suffix(p.name) = ext}

\* The sum over the media folders of their *.MP4 and *.JPG counts; the
\* folders' globs are disjoint, so the sum counts their union.
media_count(media_folders) ==
    Cardinality(UNION {glob(f, ".MP4") \cup glob(f, ".JPG") :
                          f \in media_folders})

get_gopro_folder_structure ==
    IF srcRoot = "dir" /\ dcim_is_dir
    THEN LET media_folders ==
               {item.name : item \in
                   {i \in iterdir : i.is_dir /\ IsGoproFolderName(i.name)}}
         IN  [dcim_folder |-> TRUE,
              media_folders |-> media_folders,
              media_count |-> media_count(media_folders)]
    ELSE [dcim_folder |-> FALSE, media_folders |-> {}, media_count |-> 0]

\* A directory listing returns its entries in an order the file system
\* chooses: every enumeration of the set is possible.
Orderings(S) ==
    LET n == Cardinality(S)
    IN  {s \in [1..n -> S] : \A i, j \in 1..n : i # j => s[i] # s[j]}

RECURSIVE FolderListings(_, _)
FolderListings(folder, exts) ==
    IF exts = <<>> THEN {<<>>}
    ELSE {a \o b : a \in Orderings(glob(folder, Head(exts))),
                   b \in FolderListings(folder, Tail(exts))}

RECURSIVE AllFolderListings(_, _)
AllFolderListings(fseq, exts) ==
    IF fseq = <<>> THEN {<<>>}
    ELSE {a \o b : a \in FolderListings(Head(fseq), exts),
                   b \in AllFolderListings(Tail(fseq), exts)}

\* get_media_files: the lists it can return (one per listing order).
get_media_files(media_dir_name) ==
    LET mdn == IF media_dir_name # "" THEN media_dir_name
               ELSE settings.media_dir
        exts == settings.file_extensions
        folder_info == get_gopro_folder_structure
    IN  IF ~folder_info.dcim_folder THEN {<<>>}
        ELSE IF folder_info.media_folders = {} THEN {<<>>}
        ELSE IF mdn # ""
             THEN IF mdn \in folder_info.media_folders
                  THEN FolderListings(mdn, exts)
                  ELSE {<<>>}
             ELSE UNION {AllFolderListings(fo, exts) :
                            fo \in Orderings(folder_info.media_folders)}

\* get_media_metadata of an existing file (the dates only).
get_media_metadata(p) ==
    [creation_date |-> IF has_birthtime THEN src[p].st_birthtime ELSE NoDate,
     modification_date |-> src[p].st_mtime]

\* Faulty variant of get_file_date: the modification date is preferred.
get_file_date_modification_first(p) ==
    LET metadata == get_media_metadata(p)
    IN  IF metadata.modification_date # NoDate
        THEN metadata.modification_date
        ELSE metadata.creation_date

get_file_date(p) ==
    LET metadata == get_media_metadata(p)
    IN  IF metadata.creation_date # NoDate THEN metadata.creation_date
        ELSE IF metadata.modification_date # NoDate
             THEN metadata.modification_date
             ELSE Now

\* The dict files_by_date built by the loop of lines 186-193.
RECURSIVE files_by_date(_)
files_by_date(lst) ==
    IF lst = <<>> THEN EmptyMap
    ELSE LET prev == files_by_date(Front(lst))
             date_key == date(get_file_date(Last(lst)))
         IN  IF date_key \in DOMAIN prev
             THEN [prev EXCEPT ![date_key] = Append(@, Last(lst))]
             ELSE (date_key :> <<Last(lst)>>) @@ prev

\* Faulty variant of latest_date: min instead of max.
latest_date_earliest(by_date) ==
    CHOOSE k \in DOMAIN by_date : \A j \in DOMAIN by_date : k <= j

latest_date(by_date) ==
    CHOOSE k \in DOMAIN by_date : \A j \in DOMAIN by_date : j <= k

select_latest_day(lst) == files_by_date(lst)[latest_date(files_by_date(lst))]

(***************************************************************************)
(* Transfer Executor: transfer_files, one caller c at a time or several.   *)
(***************************************************************************)
date_fmt == IF args.date_format # "" THEN args.date_format
            ELSE settings.date_format

\* extensions = file_extensions or settings.file_extensions.  The value is
\* computed and then not passed on: get_media_files reads the settings.
extensions == IF args.file_extensions # <<>> THEN args.file_extensions
              ELSE settings.file_extensions

\* Path.mkdir(exist_ok=True) without parents=True succeeds when the
\* directory exists or its parent does.
mkdir_succeeds(dir) == dir \in dstDirs \/ Front(dir) \in dstDirs

\* Faulty variant of dest_exists: the existence test is lost.
dest_exists_never(target) == FALSE

\* Faulty variant of dest_exists: a truncated file does not count.
dest_exists_if_complete(target) == target \in DOMAIN dst /\ dst[target].whole

\* dest_file.exists()
dest_exists(target) == target \in DOMAIN dst

Prefixes(dir) == {SubSeq(dir, 1, k) : k \in 0..Len(dir)}

CopyOf(p) == [from |-> p, whole |-> TRUE]
TruncatedCopyOf(p) == [from |-> p, whole |-> FALSE]
PreExisting(n) == [from |-> [folder |-> "", name |-> n], whole |-> TRUE]

\* Faulty variant of Remove: the entry stays.
Remove_nothing(f, k) == f

Remove(f, k) == [x \in DOMAIN f \ {k} |-> f[x]]
Put(f, k, v) == (k :> v) @@ f

Returns(c, recs) ==
    /\ results' = [results EXCEPT
                     ![c] = Append(@, [raised |-> FALSE, records |-> recs])]
    /\ pc' = [pc EXCEPT ![c] = "idle"]

Raises(c) ==
    /\ results' = [results EXCEPT
                     ![c] = Append(@, [raised |-> TRUE, records |-> <<>>])]
    /\ pc' = [pc EXCEPT ![c] = "idle"]

\* Lines 162-213: resolve the arguments, find the card, list the media
\* files, narrow to the latest day, create the destination root.
TransferStart(c) ==
    /\ pc[c] = "idle"
    /\ Len(results[c]) < MaxRuns
    /\ IF ~get_gopro_mount_path
       THEN /\ Returns(c, <<>>)
            /\ UNCHANGED <<dstDirs, media_files, candidates, idx,
                           transferred, outcome>>
       ELSE \E lst \in get_media_files(args.media_dir) :
              /\ candidates' = [candidates EXCEPT ![c] = lst]
              /\ IF lst = <<>>
                 THEN /\ Returns(c, <<>>)
                      /\ UNCHANGED <<dstDirs, media_files, idx,
                                     transferred, outcome>>
                 ELSE /\ media_files' =
                            [media_files EXCEPT
                               ![c] = IF ~args.all_dates
                                      THEN select_latest_day(lst) ELSE lst]
                      /\ dstDirs' = dstDirs \cup {<<>>}
                      /\ idx' = [idx EXCEPT ![c] = 1]
                      /\ transferred' = [transferred EXCEPT ![c] = <<>>]
                      /\ outcome' = [outcome EXCEPT ![c] = <<>>]
                      /\ pc' = [pc EXCEPT ![c] = "loop"]
                      /\ UNCHANGED results
    /\ IF ~get_gopro_mount_path THEN UNCHANGED candidates ELSE TRUE
    /\ UNCHANGED <<settings, has_birthtime, srcRoot, dcim, folders,
                   case_sensitive, dcim_other, src,
                   dst, src0, dst0, args, dest_file, faults>>
    /\ UNCHANGED <<parseVars, telemetryVars, extractVars, scanVars>>
    /\ UNCHANGED commandVars

\* Lines 215-233: stat the file, create its date folder, test whether the
\* destination file exists.  The stat and the mkdir are outside the try.
TransferCheck(c) ==
    /\ pc[c] = "loop"
    /\ idx[c] <= Len(media_files[c])
    /\ LET file_path == media_files[c][idx[c]]
       IN  IF file_path \notin DOMAIN src
           THEN /\ Raises(c)
                /\ UNCHANGED <<dstDirs, idx, dest_file, outcome>>
           ELSE LET date_dir == strftime(get_file_date(file_path), date_fmt)
                    target == <<date_dir, file_path.name>>
                IN  IF ~mkdir_succeeds(date_dir)
                    THEN /\ Raises(c)
                         /\ UNCHANGED <<dstDirs, idx, dest_file, outcome>>
                    ELSE /\ dstDirs' = dstDirs \cup {date_dir}
                         /\ dest_file' = [dest_file EXCEPT ![c] = target]
                         /\ UNCHANGED results
                         /\ IF dest_exists(target)
                            THEN /\ idx' = [idx EXCEPT ![c] = @ + 1]
                                 /\ outcome' = [outcome EXCEPT
                                        ![c] = Append(@, "skipped")]
                                 /\ UNCHANGED pc
                            ELSE /\ pc' = [pc EXCEPT ![c] = "copy"]
                                 /\ UNCHANGED <<idx, outcome>>
    /\ UNCHANGED <<settings, has_birthtime, srcRoot, dcim, folders,
                   case_sensitive, dcim_other, src,
                   dst, src0, dst0, args, media_files, candidates, transferred,
                   faults>>
    /\ UNCHANGED <<parseVars, telemetryVars, extractVars, scanVars>>
    /\ UNCHANGED commandVars

\* Lines 243-252: shutil.move or shutil.copy2 inside the try.  The copy
\* succeeds, or raises because the source is gone, or raises because the
\* environment makes it fail, possibly leaving a truncated file behind.
TransferCopy(c) ==
    /\ pc[c] = "copy"
    /\ LET file_path == media_files[c][idx[c]]
       IN  \/ /\ file_path \in DOMAIN src
              /\ dst' = Put(Remove(dst, dest_file[c]), dest_file[c],
                            CopyOf(file_path))
              /\ src' = IF args.move THEN Remove(src, file_path) ELSE src
              /\ transferred' = [transferred EXCEPT
                    ![c] = Append(@, [source |-> file_path,
                                      dest |-> dest_file[c]])]
              /\ outcome' = [outcome EXCEPT ![c] = Append(@, "transferred")]
              /\ UNCHANGED faults
           \/ /\ file_path \notin DOMAIN src
              /\ outcome' = [outcome EXCEPT ![c] = Append(@, "error")]
              /\ UNCHANGED <<dst, src, transferred, faults>>
           \/ /\ file_path \in DOMAIN src
              /\ faults < MaxFaults
              /\ faults' = faults + 1
              /\ \/ UNCHANGED dst
                 \/ dst' = Put(Remove(dst, dest_file[c]), dest_file[c],
                               TruncatedCopyOf(file_path))
              /\ outcome' = [outcome EXCEPT ![c] = Append(@, "error")]
              /\ UNCHANGED <<src, transferred>>
    /\ idx' = [idx EXCEPT ![c] = @ + 1]
    /\ pc' = [pc EXCEPT ![c] = "loop"]
    /\ UNCHANGED <<settings, has_birthtime, srcRoot, dcim, folders,
                   case_sensitive, dcim_other,
                   dstDirs, src0, dst0, args, media_files, candidates, dest_file,
                   results>>
    /\ UNCHANGED <<parseVars, telemetryVars, extractVars, scanVars>>
    /\ UNCHANGED commandVars

\* Lines 254-260: the loop is over, return transferred_files.
TransferReturn(c) ==
    /\ pc[c] = "loop"
    /\ idx[c] > Len(media_files[c])
    /\ Returns(c, transferred[c])
    /\ UNCHANGED <<settings, has_birthtime, srcRoot, dcim, folders,
                   case_sensitive, dcim_other, src,
                   dstDirs, dst, src0, dst0, args, media_files, candidates, idx,
                   dest_file, transferred, outcome, faults>>
    /\ UNCHANGED <<parseVars, telemetryVars, extractVars, scanVars>>
    /\ UNCHANGED commandVars

\* Environment: a source file the running transfer has not processed yet
\* disappears.
SourceVanishes(p) ==
    /\ p \in DOMAIN src
    /\ faults < MaxFaults
    /\ \E c \in Callers :
          /\ pc[c] \in {"loop", "copy"}
          /\ \E i \in idx[c]..Len(media_files[c]) : media_files[c][i] = p
    /\ src' = Remove(src, p)
    /\ faults' = faults + 1
    /\ UNCHANGED <<settings, has_birthtime, srcRoot, dcim, folders,
                   case_sensitive, dcim_other,
                   dstDirs, dst, src0, dst0, args, pc, media_files, candidates, idx,
                   dest_file, transferred, outcome, results>>
    /\ UNCHANGED <<parseVars, telemetryVars, extractVars, scanVars>>
    /\ UNCHANGED commandVars

(***************************************************************************)
(* Initial states of the transfer specification.                           *)
(***************************************************************************)
NoParse == /\ filename = <<>>
           /\ info = EmptyMap
           /\ parse_pc = "off"
NoTelemetry == /\ telemetry = EmptyMap
               /\ formats = {}
               /\ files_written = EmptyMap
               /\ output_files = EmptyMap
               /\ tel_pc = "off"
NoExtract == /\ video = EmptyMap
             /\ extracted = EmptyMap
             /\ extract_exc = ""
             /\ extract_pc = "off"
NoScan == /\ structure = EmptyMap
          /\ scan_pc = "off"
NoCommand == /\ cmd_pc = "off"
             /\ extract_tel = FALSE
             /\ tel_idx = 1
             /\ tel_log = <<>>
             /\ cmd_rc = <<>>

InitSettings ==
    settings \in {[media_dir |-> m,
                   date_format |-> DefaultDateFormat,
                   file_extensions |-> DefaultFileExtensions] :
                     m \in {DefaultMediaDir, ""}}

InitVolume ==
    /\ srcRoot \in {"dir", "absent"}
    /\ dcim \in {"dir", "absent"}
    /\ srcRoot = "absent" => dcim = "absent"
    /\ has_birthtime \in BOOLEAN
    /\ case_sensitive = TRUE
    /\ dcim_other = {}
    /\ \E S \in SUBSET Paths :
          /\ dcim = "absent" => S = {}
          /\ src \in [S -> FileStats]
          /\ folders \in {{p.folder : p \in S}, Folders}
          /\ dcim = "absent" => folders = {}
    /\ src0 = src

\* The media folder is named by the argument, or by the settings, or by
\* neither (the settings' media_dir is then empty as well).
InitArgs ==
    /\ args \in [media_dir : {"", DefaultMediaDir},
                 date_format : {"", NestedDateFormat},
                 file_extensions : {<<>>},
                 move : BOOLEAN,
                 all_dates : BOOLEAN]
    /\ args.media_dir # "" => settings.media_dir = ""

InitDestination ==
    /\ \/ /\ dstDirs = {}
          /\ dst = EmptyMap
       \/ LET dir == strftime(MaxTime, date_fmt)
          IN  /\ dstDirs = Prefixes(dir)
              /\ dst = Put(EmptyMap, <<dir, "GOPR0001.MP4">>,
                           PreExisting("GOPR0001.MP4"))
    /\ dst0 = dst

InitCallers(running) ==
    /\ pc = [c \in Callers |-> IF c \in running THEN "idle" ELSE "off"]
    /\ media_files = [c \in Callers |-> <<>>]
    /\ candidates = [c \in Callers |-> <<>>]
    /\ idx = [c \in Callers |-> 1]
    /\ dest_file = [c \in Callers |-> <<>>]
    /\ transferred = [c \in Callers |-> <<>>]
    /\ outcome = [c \in Callers |-> <<>>]
    /\ results = [c \in Callers |-> <<>>]
    /\ faults = 0

Init ==
    /\ InitSettings
    /\ InitVolume
    /\ InitArgs
    /\ InitDestination
    /\ InitCallers({"c1"})
    /\ NoParse
    /\ NoTelemetry
    /\ NoExtract
    /\ NoScan
    /\ NoCommand

Next ==
    \/ \E c \in Callers : TransferStart(c)
    \/ \E c \in Callers : TransferCheck(c)
    \/ \E c \in Callers : TransferCopy(c)
    \/ \E c \in Callers : TransferReturn(c)
    \/ \E p \in Paths : SourceVanishes(p)

Spec == Init /\ [][Next]_vars

(***************************************************************************)
(* Filename Classifier: parse_gopro_filename.  A filename is a sequence of *)
(* one-character strings.                                                  *)
(***************************************************************************)
\* int(): the value of a string of decimal digits; anything else raises.
int_raises(s) == s = <<>> \/ ~AllDigits(s)
DigitValue(ch) == (CHOOSE i \in 1..Len(DigitChars) : DigitChars[i] = ch) - 1
RECURSIVE int(_)
int(s) == IF Len(s) = 1 THEN DigitValue(s[1])
          ELSE 10 * int(Front(s)) + DigitValue(Last(s))

NoMatch == <<>>

\* Faulty variant of match_newer: the file number is captured one character early.
match_newer_shifted(s) ==
    IF /\ Len(s) >= 9
       /\ s[1] = "G"
       /\ (s[2] \in UpperChars \/ isdigit(s[2]))
       /\ AllDigits(SubSeq(s, 3, 8))
       /\ s[9] = "."
    THEN <<SubSeq(s, 2, 2), SubSeq(s, 2, 7)>>
    ELSE NoMatch

\* re.match(r"G([A-Z0-9])(\d{6})\.", filename): the groups, or NoMatch.
match_newer(s) ==
    IF /\ Len(s) >= 9
       /\ s[1] = "G"
       /\ (s[2] \in UpperChars \/ isdigit(s[2]))
       /\ AllDigits(SubSeq(s, 3, 8))
       /\ s[9] = "."
    THEN <<SubSeq(s, 2, 2), SubSeq(s, 3, 8)>>
    ELSE NoMatch

\* Faulty variant of match_older: the literal dot after the digits is not required.
match_older_no_dot(s) ==
    IF /\ Len(s) >= 8
       /\ SubSeq(s, 1, 4) = <<"G", "O", "P", "R">>
       /\ AllDigits(SubSeq(s, 5, 8))
    THEN <<SubSeq(s, 1, 4), <<>>, SubSeq(s, 5, 8)>>
    ELSE IF /\ Len(s) >= 8
            /\ SubSeq(s, 1, 2) = <<"G", "P">>
            /\ AllDigits(SubSeq(s, 3, 4))
            /\ AllDigits(SubSeq(s, 5, 8))
         THEN <<SubSeq(s, 1, 4), SubSeq(s, 3, 4), SubSeq(s, 5, 8)>>
         ELSE NoMatch

\* re.match(r"(GOPR|GP(\d{2}))(\d{4})\.", filename): the groups (prefix,
\* chapter, file number; the chapter group is empty when the first
\* alternative matched), or NoMatch.
match_older(s) ==
    IF /\ Len(s) >= 9
       /\ SubSeq(s, 1, 4) = <<"G", "O", "P", "R">>
       /\ AllDigits(SubSeq(s, 5, 8))
       /\ s[9] = "."
    THEN <<SubSeq(s, 1, 4), <<>>, SubSeq(s, 5, 8)>>
    ELSE IF /\ Len(s) >= 9
            /\ SubSeq(s, 1, 2) = <<"G", "P">>
            /\ AllDigits(SubSeq(s, 3, 4))
            /\ AllDigits(SubSeq(s, 5, 8))
            /\ s[9] = "."
         THEN <<SubSeq(s, 1, 4), SubSeq(s, 3, 4), SubSeq(s, 5, 8)>>
         ELSE NoMatch

\* Whether parse_gopro_filename raises: only int() can.
parse_gopro_filename_raises(s) ==
    IF match_newer(s) # NoMatch
    THEN isdigit(match_newer(s)[1][1]) /\ int_raises(match_newer(s)[1])
    ELSE IF match_older(s) # NoMatch
         THEN /\ match_older(s)[1] # <<"G", "O", "P", "R">>
              /\ int_raises(match_older(s)[2])
         ELSE FALSE

\* The dict parse_gopro_filename returns: the newer pattern is tried first.
parse_gopro_filename(s) ==
    IF match_newer(s) # NoMatch
    THEN LET type_code == match_newer(s)[1]
             file_number == match_newer(s)[2]
         IN  IF isdigit(type_code[1])
             THEN ("file_type" :> "chapter") @@ ("chapter" :> int(type_code))
                    @@ ("file_number" :> file_number)
             ELSE ("file_type" :> "main") @@ ("file_number" :> file_number)
    ELSE IF match_older(s) # NoMatch
         THEN LET prefix == match_older(s)[1]
                  chapter == match_older(s)[2]
                  file_number == match_older(s)[3]
              IN  IF prefix = <<"G", "O", "P", "R">>
                  THEN ("file_type" :> "main")
                         @@ ("file_number" :> file_number)
                  ELSE ("file_type" :> "chapter")
                         @@ ("chapter" :> int(chapter))
                         @@ ("file_number" :> file_number)
         ELSE EmptyMap

ParseFilename ==
    /\ parse_pc = "call"
    /\ IF parse_gopro_filename_raises(filename)
       THEN /\ parse_pc' = "raised"
            /\ UNCHANGED info
       ELSE /\ parse_pc' = "returned"
            /\ info' = parse_gopro_filename(filename)
    /\ UNCHANGED filename
    /\ UNCHANGED <<transferVars, telemetryVars, extractVars, scanVars,
                   commandVars>>

\* The filenames of the model: a prefix, a run of digits, a tail.
NamePrefixes == { <<>>, <<"G">>, <<"G", "X">>, <<"G", "H">>, <<"G", "x">>,
                  <<"G", "P">>, <<"G", "O">>, <<"G", "O", "P", "R">>,
                  <<"G", "O", "P", "R", "O">>, <<"g", "x">>, <<"X", "G">>,
                  <<"G", "P", "R">>, <<"A", "G", "X">> }
NameDigits == {"0", "1"}
NameTails == { <<>>, <<".">>, <<".", "M", "P", "4">>, <<"M", "P", "4">>,
               <<".", "j", "p", "g">>, <<"X", ".", "M", "P", "4">> }
DigitRuns == UNION {[1..n -> NameDigits] : n \in 0..MaxDigits}
Filenames == {a \o b \o c : a \in NamePrefixes, b \in DigitRuns, c \in NameTails}

NoTransfer ==
    /\ settings = EmptyMap /\ has_birthtime = FALSE
    /\ srcRoot = "absent" /\ dcim = "absent" /\ folders = {}
    /\ case_sensitive = TRUE /\ dcim_other = {}
    /\ src = EmptyMap /\ src0 = EmptyMap
    /\ dstDirs = {} /\ dst = EmptyMap /\ dst0 = EmptyMap
    /\ args = EmptyMap
    /\ pc = [c \in Callers |-> "off"]
    /\ media_files = [c \in Callers |-> <<>>]
    /\ candidates = [c \in Callers |-> <<>>]
    /\ idx = [c \in Callers |-> 1]
    /\ dest_file = [c \in Callers |-> <<>>]
    /\ transferred = [c \in Callers |-> <<>>]
    /\ outcome = [c \in Callers |-> <<>>]
    /\ results = [c \in Callers |-> <<>>]
    /\ faults = 0

InitParse ==
    /\ filename \in Filenames
    /\ info = EmptyMap
    /\ parse_pc = "call"
    /\ NoTransfer
    /\ NoTelemetry
    /\ NoExtract
    /\ NoScan
    /\ NoCommand

NextParse == ParseFilename

SpecParse == InitParse /\ [][NextParse]_vars

(***************************************************************************)
(* Vocabulary of the claims about the classifier: the shapes of the two    *)
(* naming conventions as the specification words them.  The camera writes  *)
(* upper-case names: a letter is one of A-Z, and the extension is the dot  *)
(* and whatever follows it.                                                *)
(***************************************************************************)
IsLetter(ch) == ch \in UpperChars

\* s is <lead> followed by n digits and an extension (a dot and the rest).
DigitsAndExtension(s, lead, n) ==
    /\ Len(s) >= lead + n + 1
    /\ \A i \in (lead + 1)..(lead + n) : isdigit(s[i])
    /\ s[lead + n + 1] = "."

\* G<c><6 digits>.<ext>
NewerShape(s) ==
    /\ DigitsAndExtension(s, 2, 6)
    /\ s[1] = "G"
    /\ (IsLetter(s[2]) \/ isdigit(s[2]))

\* GOPR<4 digits>.<ext>
OlderMainShape(s) ==
    /\ DigitsAndExtension(s, 4, 4)
    /\ SubSeq(s, 1, 4) = <<"G", "O", "P", "R">>

\* GP<2 digits><4 digits>.<ext>
OlderChapterShape(s) ==
    /\ DigitsAndExtension(s, 2, 6)
    /\ SubSeq(s, 1, 2) = <<"G", "P">>

Parsed == parse_pc = "returned"
Has(key) == key \in DOMAIN info

IsMain(number) ==
    /\ Parsed
    /\ DOMAIN info = {"file_type", "file_number"}
    /\ info["file_type"] = "main"
    /\ info["file_number"] = number

IsChapter(chapter, number) ==
    /\ Parsed
    /\ DOMAIN info = {"file_type", "chapter", "file_number"}
    /\ info["file_type"] = "chapter"
    /\ info["chapter"] = chapter
    /\ info["file_number"] = number

\* C5: an older-convention name GOPR<4 digits>.<ext> is classified main with
\* that sequence number, and GP<2 digits><4 digits>.<ext> is classified
\* chapter with the 2-digit chapter and the last 4 digits as sequence number.
C5_OlderConvention ==
    parse_pc # "call"
        => /\ OlderMainShape(filename) => IsMain(SubSeq(filename, 5, 8))
           /\ OlderChapterShape(filename)
                => IsChapter(int(SubSeq(filename, 3, 4)),
                             SubSeq(filename, 5, 8))

C7_UnrecognizedIsEmpty ==
    /\ parse_pc # "raised"
    /\ (parse_pc # "call" /\ ~NewerShape(filename)
            /\ ~OlderMainShape(filename) /\ ~OlderChapterShape(filename))
          => (Parsed /\ info = EmptyMap)

\* C7 witness: a name that starts like a main file of the older convention
\* but lacks the dot was classified to the empty dict.
C7_Witness ==
    /\ Parsed
    /\ Len(filename) >= 8
    /\ SubSeq(filename, 1, 4) = <<"G", "O", "P", "R">>
    /\ AllDigits(SubSeq(filename, 5, 8))
    /\ ~OlderMainShape(filename)
    /\ info = EmptyMap

(***************************************************************************)
(* Telemetry Exporter: TelemetryData.to_json and save_telemetry.           *)
(***************************************************************************)
WellKnown == <<"gps", "accl", "gyro", "temp">>

\* The samples of the model: sample i of a sequence has timestamp i.
GpsPoint(i) == [timestamp |-> i, latitude |-> i, longitude |-> i,
                altitude |-> i, speed |-> i, speed3d |-> i]
XyzPoint(i) == [timestamp |-> i, x |-> i, y |-> i, z |-> i]
TempPoint(i) == [timestamp |-> i, temperature |-> i]
OtherPoint(i) == [timestamp |-> i, value |-> i]

GpsSequences == {[i \in 1..n |-> GpsPoint(i)] : n \in 0..MaxSamples}
XyzSequences == {[i \in 1..n |-> XyzPoint(i)] : n \in 0..MaxSamples}
TempSequences == {[i \in 1..n |-> TempPoint(i)] : n \in 0..MaxSamples}
OtherSequences == {[i \in 1..n |-> OtherPoint(i)] : n \in 0..MaxSamples}

\* Names a pass-through stream can have: a camera stream the extractor
\* does not interpret, and a name that is also a key of the export.
OtherNames == {"SHUT", "gps"}

\* The object TelemetryData.to_json serialises: the four well-known keys,
\* then **self.other_data, whose keys replace equal keys before them.
to_json_data(t) ==
    t.other_data @@ ("gps" :> t.gps) @@ ("accl" :> t.accl)
                 @@ ("gyro" :> t.gyro) @@ ("temp" :> t.temp)

CsvHeader(kind) ==
    IF kind = "gps" THEN "timestamp,latitude,longitude,altitude,speed,speed3d"
    ELSE IF kind = "temp" THEN "timestamp,temperature"
    ELSE "timestamp,x,y,z"

\* Path of an output file: the stem of base_path and a fixed suffix.
JsonPath(base_name) == <<base_name, "_telemetry.json">>
CsvPath(base_name, kind) ==
    <<base_name,
      IF kind = "gps" THEN "_gps.csv"
      ELSE IF kind = "accl" THEN "_accl.csv"
      ELSE IF kind = "gyro" THEN "_gyro.csv"
      ELSE "_temp.csv">>
CsvKey(kind) ==
    IF kind = "gps" THEN "gps_csv"
    ELSE IF kind = "accl" THEN "accl_csv"
    ELSE IF kind = "gyro" THEN "gyro_csv"
    ELSE "temp_csv"

\* Faulty variant of csv_wanted: a tabular file is written for an empty sequence too.
csv_wanted_always(points) == TRUE

\* "if telemetry.gps:" and its three siblings: a non-empty list is truthy.
csv_wanted(points) == points # <<>>

\* The files save_telemetry writes and the mapping it returns, built in
\* the order of the code: the JSON file, then one CSV per well-known kind.
RECURSIVE save_csv(_, _, _, _)
save_csv(t, base_name, kinds, acc) ==
    IF kinds = <<>> THEN acc
    ELSE LET kind == Head(kinds)
             next ==
               IF csv_wanted(t[kind])
               THEN [files |-> Put(Remove(acc.files, CsvPath(base_name, kind)),
                                   CsvPath(base_name, kind),
                                   [header |-> CsvHeader(kind),
                                    rows |-> t[kind]]),
                     output |-> Put(Remove(acc.output, CsvKey(kind)),
                                    CsvKey(kind), CsvPath(base_name, kind))]
               ELSE acc
         IN  save_csv(t, base_name, Tail(kinds), next)

save_telemetry(t, base_name, fmts) ==
    LET after_json ==
          IF "json" \in fmts
          THEN [files |-> Put(EmptyMap, JsonPath(base_name), to_json_data(t)),
                output |-> Put(EmptyMap, "json", JsonPath(base_name))]
          ELSE [files |-> EmptyMap, output |-> EmptyMap]
    IN  IF "csv" \in fmts
        THEN save_csv(t, base_name, WellKnown, after_json)
        ELSE after_json

BaseName == "GX010001"

SaveTelemetry ==
    /\ tel_pc = "call"
    /\ files_written' = save_telemetry(telemetry, BaseName, formats).files
    /\ output_files' = save_telemetry(telemetry, BaseName, formats).output
    /\ tel_pc' = "returned"
    /\ UNCHANGED <<telemetry, formats>>
    /\ UNCHANGED <<transferVars, parseVars, extractVars, scanVars,
                   commandVars>>

InitTelemetry ==
    /\ telemetry \in
         UNION { [gps : GpsSequences, accl : XyzSequences,
                  gyro : XyzSequences, temp : TempSequences,
                  other_data : [names -> OtherSequences]] :
                    names \in SUBSET OtherNames }
    /\ formats \in SUBSET {"json", "csv", "xml"}
    /\ files_written = EmptyMap
    /\ output_files = EmptyMap
    /\ tel_pc = "call"
    /\ NoTransfer
    /\ NoParse
    /\ NoExtract
    /\ NoScan
    /\ NoCommand

NextTelemetry == SaveTelemetry

SpecTelemetry == InitTelemetry /\ [][NextTelemetry]_vars

(***************************************************************************)
(* Claims about the exporter.                                              *)
(***************************************************************************)
Saved == tel_pc = "returned"
Written(path) == path \in DOMAIN files_written

\* C9: save_telemetry writes one tabular file for each non-empty well-known
\* sequence when the tabular format is requested and no other tabular
\* file, a structured file iff the structured format is requested, nothing
\* else, no file with a header only, and returns one entry per file written.
C9_FilesWritten ==
    Saved =>
        /\ \A i \in 1..Len(WellKnown) :
              Written(CsvPath(BaseName, WellKnown[i]))
                 <=> ("csv" \in formats /\ telemetry[WellKnown[i]] # <<>>)
        /\ Written(JsonPath(BaseName)) <=> "json" \in formats
        /\ DOMAIN files_written \subseteq
              {JsonPath(BaseName)}
                 \cup {CsvPath(BaseName, WellKnown[i]) : i \in 1..Len(WellKnown)}
        /\ \A i \in 1..Len(WellKnown) :
              Written(CsvPath(BaseName, WellKnown[i]))
                 => /\ files_written[CsvPath(BaseName, WellKnown[i])].rows
                          = telemetry[WellKnown[i]]
                    /\ files_written[CsvPath(BaseName, WellKnown[i])].rows # <<>>
        /\ {output_files[k] : k \in DOMAIN output_files} = DOMAIN files_written
        /\ Cardinality(DOMAIN output_files) = Cardinality(DOMAIN files_written)

\* C9 witness: GPS-only data saved in both formats gave exactly the
\* structured file and the GPS tabular file.
C9_Witness ==
    /\ Saved
    /\ formats = {"json", "csv"}
    /\ telemetry.gps # <<>>
    /\ telemetry.accl = <<>> /\ telemetry.gyro = <<>> /\ telemetry.temp = <<>>
    /\ DOMAIN telemetry.other_data # {}
    /\ DOMAIN files_written = {JsonPath(BaseName), CsvPath(BaseName, "gps")}
    /\ DOMAIN output_files = {"json", "gps_csv"}

\* C10: the structured export holds the four well-known sequences under
\* gps, accl, gyro and temp, and every pass-through stream's samples under
\* the stream's name, whatever that name is.
C10_StructuredExportKeys ==
    (Saved /\ "json" \in formats) =>
        LET data == files_written[JsonPath(BaseName)]
        IN  /\ \A i \in 1..Len(WellKnown) :
                  /\ WellKnown[i] \in DOMAIN data
                  /\ data[WellKnown[i]] = telemetry[WellKnown[i]]
            /\ \A n \in DOMAIN telemetry.other_data :
                  /\ n \in DOMAIN data
                  /\ data[n] = telemetry.other_data[n]

(***************************************************************************)
(* Telemetry Extractor: extract_telemetry.  The container parser is a      *)
(* collaborator: its constructor, get_streams() and every get_stream(name) *)
(* can raise, and iterating a stream can raise after any number of         *)
(* samples.                                                                *)
(***************************************************************************)
KnownStreams == <<"GPS5", "ACCL", "GYRO", "TMPC">>
StreamNames == <<"GPS5", "ACCL", "GYRO", "TMPC", "SHUT">>

\* The i-th data point a stream yields: a timestamp and a list of values.
DataPoint(i) == [timestamp |-> i,
                 value |-> <<10 * i + 1, 10 * i + 2, 10 * i + 3,
                             10 * i + 4, 10 * i + 5>>]

\* The dict appended for one data point of each stream.
gps_point(dp) == [timestamp |-> dp.timestamp, latitude |-> dp.value[1],
                  longitude |-> dp.value[2], altitude |-> dp.value[3],
                  speed |-> dp.value[4], speed3d |-> dp.value[5]]
xyz_point(dp) == [timestamp |-> dp.timestamp, x |-> dp.value[1],
                  y |-> dp.value[2], z |-> dp.value[3]]
temp_point(dp) == [timestamp |-> dp.timestamp, temperature |-> dp.value[1]]
point_data(dp) == [timestamp |-> dp.timestamp, value |-> dp.value]

convert(name, dp) ==
    IF name = "GPS5" THEN gps_point(dp)
    ELSE IF name \in {"ACCL", "GYRO"} THEN xyz_point(dp)
    ELSE IF name = "TMPC" THEN temp_point(dp)
    ELSE point_data(dp)

\* What a stream does when it is read: it yields n data points and ends
\* (fail = "none"), get_stream raises (fail = "open"), or it yields n data
\* points and the iteration then raises (fail = "iter").
StreamBehaviours ==
    {[n |-> k, fail |-> "none"] : k \in 0..MaxSamples}
    \cup {[n |-> 0, fail |-> "open"]}
    \cup {[n |-> k, fail |-> "iter"] : k \in 0..(MaxSamples - 1)}

\* The list a loop "for data_point in stream: lst.append(...)" has built
\* when the loop ends or raises: the points appended so far.
appended(name, b) == [i \in 1..b.n |-> convert(name, DataPoint(i))]

\* Lines 98-176: gps_data, accl_data, gyro_data, temp_data after their
\* try blocks; the except clause only logs.
known_data(v, name) ==
    IF name \notin v.streams THEN <<>>
    ELSE appended(name, v.behaviour[name])

\* Lines 178-199: other_data.  stream_data is kept only when the try block
\* reaches its end and the list is not empty.
other_data_of(v) ==
    LET kept == {name \in v.streams :
                    /\ name \notin Range(KnownStreams)
                    /\ v.behaviour[name].fail = "none"
                    /\ appended(name, v.behaviour[name]) # <<>>}
    IN  [name \in kept |-> appended(name, v.behaviour[name])]

\* extract_telemetry: the exception that escapes ("" when it returns).
\* get_streams() is called outside every try: what it raises escapes as
\* raised, here an error of the parser library.
extract_telemetry_raises(v) ==
    IF ~v.exists THEN "FileNotFoundError"
    ELSE IF v.parser = "fails" THEN "ValueError"
    ELSE IF v.get_streams = "fails" THEN "ParserLibraryError"
    ELSE ""

extract_telemetry(v) ==
    [gps |-> known_data(v, "GPS5"), accl |-> known_data(v, "ACCL"),
     gyro |-> known_data(v, "GYRO"), temp |-> known_data(v, "TMPC"),
     other_data |-> other_data_of(v)]

ExtractTelemetry ==
    /\ extract_pc = "call"
    /\ extract_exc' = extract_telemetry_raises(video)
    /\ IF extract_telemetry_raises(video) # ""
       THEN /\ extract_pc' = "raised"
            /\ UNCHANGED extracted
       ELSE /\ extract_pc' = "returned"
            /\ extracted' = extract_telemetry(video)
    /\ UNCHANGED video
    /\ UNCHANGED <<transferVars, parseVars, telemetryVars, scanVars,
                   commandVars>>

\* A video that exists and parses reports a set of streams, each with a
\* behaviour; the other videos are absent, or not a container the parser
\* can open, or fail when their streams are listed.
ReadableVideo(S, b) ==
    [exists |-> TRUE, parser |-> "ok", get_streams |-> "ok",
     streams |-> S, behaviour |-> b]
UnreadableVideo(e, p, g) ==
    [exists |-> e, parser |-> p, get_streams |-> g,
     streams |-> {}, behaviour |-> EmptyMap]

InitExtract ==
    /\ \/ \E S \in SUBSET Range(StreamNames) :
             \E b \in [S -> StreamBehaviours] : video = ReadableVideo(S, b)
       \/ \E e \in BOOLEAN, p, g \in {"ok", "fails"} :
             video = UnreadableVideo(e, p, g)
    /\ extracted = EmptyMap
    /\ extract_exc = ""
    /\ extract_pc = "call"
    /\ NoTransfer
    /\ NoParse
    /\ NoTelemetry
    /\ NoScan
    /\ NoCommand

NextExtract == ExtractTelemetry

SpecExtract == InitExtract /\ [][NextExtract]_vars

(***************************************************************************)
(* Claims about the extractor.                                             *)
(***************************************************************************)
Extracted == extract_pc = "returned"
FieldOf(name) ==
    IF name = "GPS5" THEN "gps" ELSE IF name = "ACCL" THEN "accl"
    ELSE IF name = "GYRO" THEN "gyro" ELSE "temp"
Failed(name) == name \in video.streams /\ video.behaviour[name].fail # "none"
Succeeded(name) == name \in video.streams /\ video.behaviour[name].fail = "none"
AllSamples(name) ==
    [i \in 1..video.behaviour[name].n |-> convert(name, DataPoint(i))]

\* C11: when a well-known stream fails, on opening or while its samples
\* are iterated, its sequence in the result is empty, and every other
\* stream that does not fail is still extracted.
C11_FailedStreamIsEmpty ==
    Extracted =>
        \A i \in 1..Len(KnownStreams) :
            LET name == KnownStreams[i]
            IN  /\ Failed(name) => extracted[FieldOf(name)] = <<>>
                /\ Succeeded(name) => extracted[FieldOf(name)] = AllSamples(name)

\* C12: extract_telemetry fails with FileNotFoundError when the video does
\* not exist, with ValueError whenever the parser cannot open or decode
\* the file or list its streams, and with nothing else.
C12_OnlyNotFoundAndParseError ==
    extract_pc \in {"returned", "raised"} =>
        /\ ~video.exists => extract_exc = "FileNotFoundError"
        /\ (video.exists /\ (video.parser = "fails" \/ video.get_streams = "fails"))
              => extract_exc = "ValueError"
        /\ extract_exc \in {"", "FileNotFoundError", "ValueError"}

\* C13: every reported stream other than the four well-known ones whose
\* extraction does not fail is a key of other_data holding its samples in
\* parser order, a stream of zero samples included.
C13_PassThroughCaptured ==
    Extracted =>
        \A name \in video.streams \ Range(KnownStreams) :
            Succeeded(name) =>
                /\ name \in DOMAIN extracted.other_data
                /\ extracted.other_data[name] = AllSamples(name)

(***************************************************************************)
(* Volume Scanner called on its own: get_gopro_folder_structure on a root  *)
(* whose DCIM entry and whose entries inside DCIM are of every kind.       *)
(***************************************************************************)
ScanVolume ==
    /\ scan_pc = "call"
    /\ structure' = get_gopro_folder_structure
    /\ scan_pc' = "returned"
    /\ UNCHANGED <<transferVars, parseVars, telemetryVars, extractVars,
                   commandVars>>

\* Directories that can lie directly inside DCIM, regular files that can,
\* and a directory one level further down.
ScanFolderNames == {"100GOPRO", "101GOPRO", "100GOPRO_OLD", "10GOPRO", "MISC"}
ScanOtherEntries ==
    { [kind |-> "file", parent |-> "", name |-> "102GOPRO"],
      [kind |-> "file", parent |-> "", name |-> "NOTES.TXT"],
      [kind |-> "nested", parent |-> "MISC", name |-> "103GOPRO"] }
ScanPaths == Paths \cup {[folder |-> "100GOPRO_OLD", name |-> "GOPR0001.MP4"]}
ScanStat == [st_birthtime |-> TicksPerDay, st_mtime |-> TicksPerDay]

\* No transfer_files call is made and there is no destination.
NoTransferCall ==
    /\ settings = EmptyMap /\ has_birthtime = FALSE
    /\ dstDirs = {} /\ dst = EmptyMap /\ dst0 = EmptyMap
    /\ args = EmptyMap
    /\ InitCallers({})

InitScan ==
    /\ srcRoot = "dir"
    /\ dcim \in {"dir", "absent", "file", "dir_other_case"}
    /\ case_sensitive \in BOOLEAN
    /\ folders \in SUBSET ScanFolderNames
    /\ dcim_other \in SUBSET ScanOtherEntries
    /\ \A e \in dcim_other : e.kind = "nested" => e.parent \in folders
    /\ \E S \in SUBSET ScanPaths :
          /\ \A p \in S : p.folder \in folders
          /\ src = [p \in S |-> ScanStat]
    /\ dcim \in {"absent", "file"} => (folders = {} /\ dcim_other = {})
    /\ src0 = src
    /\ structure = EmptyMap
    /\ scan_pc = "call"
    /\ NoTransferCall
    /\ NoParse
    /\ NoTelemetry
    /\ NoExtract
    /\ NoCommand

NextScan == ScanVolume

SpecScan == InitScan /\ [][NextScan]_vars

(***************************************************************************)
(* Claims about the scanner.                                               *)
(***************************************************************************)
Scanned == scan_pc = "returned"
ContainerNotFound ==
    /\ structure.dcim_folder = FALSE
    /\ structure.media_folders = {}
    /\ structure.media_count = 0

\* C14 as claimed: when no directory named exactly DCIM exists (no such
\* entry, a regular file, or a directory spelled in another letter case)
\* the result is flagged container-not-found with no folders and count 0.
C14_NoContainerNotFound ==
    (Scanned /\ dcim # "dir") => ContainerNotFound

\* C14 amended: the same when the name DCIM does not resolve to a
\* directory: no such entry, a regular file, or a directory spelled in
\* another letter case on a volume whose name lookup is case-sensitive.
C14_UnresolvedContainerNotFound ==
    (Scanned /\ (dcim \in {"absent", "file"}
                 \/ (dcim = "dir_other_case" /\ case_sensitive)))
        => ContainerNotFound

\* C14 witness: DCIM is a regular file and the scan returned not-found.
C14_Witness ==
    /\ Scanned
    /\ dcim = "file"
    /\ ContainerNotFound

\* Three digits followed by GOPRO and nothing else.
ExactGoproName(n) ==
    /\ Len(EntryChars(n)) = 8
    /\ \A i \in 1..3 : EntryChars(n)[i] \in Range(DigitChars)
    /\ SubSeq(EntryChars(n), 4, 8) = <<"G", "O", "P", "R", "O">>

\* C15: when the container exists the folder list holds exactly the
\* immediate subdirectories named three digits plus GOPRO: no regular file,
\* no nested directory, no directory whose name only starts that way.
C15_ExactlyMediaFolders ==
    (Scanned /\ structure.dcim_folder)
        => structure.media_folders = {f \in folders : ExactGoproName(f)}

(***************************************************************************)
(* Media Selector through transfer_files: one caller, a card with files of *)
(* more extensions and folders of more names, and a caller who names the   *)
(* media folder and the extensions, or neither.                            *)
(***************************************************************************)
SelectPaths ==
    Paths \cup { [folder |-> "100GOPRO", name |-> "GOPR0003.mp4"],
                 [folder |-> "101GOPRO", name |-> "GOPR0004.THM"] }
SuppliedExtensions == <<".JPG", ".mp4">>

InitSelect ==
    /\ InitSettings
    /\ has_birthtime = TRUE
    /\ srcRoot \in {"dir", "file", "absent"}
    /\ dcim \in {"dir", "file", "absent"}
    /\ srcRoot # "dir" => dcim = "absent"
    /\ case_sensitive = TRUE
    /\ dcim_other = {}
    /\ \E S \in SUBSET SelectPaths :
          /\ dcim # "dir" => S = {}
          /\ src = [p \in S |-> ScanStat]
          /\ folders \in {{p.folder : p \in S}, {p.folder : p \in S} \cup {"MISC"}}
          /\ dcim # "dir" => folders = {}
    /\ src0 = src
    /\ args \in [media_dir : {"", "101GOPRO"},
                 date_format : {""},
                 file_extensions : {<<>>, SuppliedExtensions},
                 move : BOOLEAN,
                 all_dates : BOOLEAN]
    /\ dstDirs = {} /\ dst = EmptyMap /\ dst0 = EmptyMap
    /\ InitCallers({"c1"})
    /\ NoParse
    /\ NoTelemetry
    /\ NoExtract
    /\ NoScan
    /\ NoCommand

SpecSelect == InitSelect /\ [][Next]_vars

(***************************************************************************)
(* Claims about the selector.                                              *)
(***************************************************************************)
\* The caller has made at least one call and the card is as it was.
Selected(c) ==
    (pc[c] \in {"loop", "copy"} \/ Len(results[c]) > 0) /\ src = src0
\* candidates[c] is the list of the caller's first call.
FirstSelection(c) ==
    /\ Selected(c)
    /\ Len(results[c]) = 0 \/ (Len(results[c]) = 1 /\ pc[c] = "idle")

\* The media subfolders of the card as the spec describes them.
DiscoveredFolders ==
    IF srcRoot = "dir" /\ dcim = "dir"
    THEN {f \in folders : ExactGoproName(f)} ELSE {}
FilesIn(fs) == {p \in DOMAIN src0 : p.folder \in fs}

\* C16: candidates come only from the named subfolder when the caller
\* names one, and from every discovered media subfolder when the caller
\* names none (stated for callers who leave the extensions to the
\* configuration).
C16_NamedOrAllSubfolders ==
    \A c \in Callers :
        (FirstSelection(c) /\ args.file_extensions = <<>>)
            => IF args.media_dir # ""
               THEN Range(candidates[c]) =
                      {p \in FilesIn(DiscoveredFolders \cap {args.media_dir}) :
                          Suffix(p.name) \in Range(settings.file_extensions)}
               ELSE Range(candidates[c]) =
                      {p \in FilesIn(DiscoveredFolders) :
                          Suffix(p.name) \in Range(settings.file_extensions)}

\* C17: with a named subfolder, the candidates are exactly the files
\* directly inside it whose name ends with one of the extensions the
\* caller of transfer_files supplied (the configured ones when the caller
\* supplies none).
C17_SuppliedExtensionsSelect ==
    \A c \in Callers :
        (FirstSelection(c) /\ args.media_dir # "")
            => Range(candidates[c]) =
                  {p \in FilesIn(DiscoveredFolders \cap {args.media_dir}) :
                      Suffix(p.name) \in
                         Range(IF args.file_extensions # <<>>
                               THEN args.file_extensions
                               ELSE settings.file_extensions)}

\* The four cases of an empty transfer, for a caller who names the
\* subfolder and the extensions or leaves them to the configuration.
NamedFolders ==
    IF args.media_dir # "" THEN DiscoveredFolders \cap {args.media_dir}
    ELSE IF settings.media_dir # ""
         THEN DiscoveredFolders \cap {settings.media_dir}
         ELSE DiscoveredFolders
NothingToTransfer ==
    \/ srcRoot # "dir"
    \/ dcim # "dir"
    \/ NamedFolders = {}
    \/ \A p \in FilesIn(NamedFolders) :
          Suffix(p.name) \notin
             Range(IF args.file_extensions # <<>>
                   THEN args.file_extensions ELSE settings.file_extensions)

\* C18: when the source root or the container is missing, no media
\* subfolder matches or no file matches the extensions, every call returns
\* an empty list without raising and nothing is created under the
\* destination, not even its root.
C18_NothingToTransfer ==
    \A c \in Callers :
        (Selected(c) /\ NothingToTransfer)
            => /\ pc[c] = "idle"
               /\ \A r \in 1..Len(results[c]) :
                     ~results[c][r].raised /\ results[c][r].records = <<>>
               /\ dstDirs = {}
               /\ dst = EmptyMap

(***************************************************************************)
(* The transfer command: GoProTransfer.transfer of main.py, run once by    *)
(* the caller "c1".  It calls main.py's own transfer_files, whose loop     *)
(* (main.py:194-239) is line for line the loop of operations.py:215-260    *)
(* and is therefore run by TransferCheck, TransferCopy and TransferReturn. *)
(***************************************************************************)
CommandCaller == "c1"

\* Lines 162-192 of main.py: resolve the arguments, find the card, list
\* the media files, create the destination root.  The list get_media_files
\* returned is the list the loop iterates over.
MainTransferStart(c) ==
    /\ pc[c] = "idle"
    /\ Len(results[c]) < MaxRuns
    /\ IF ~get_gopro_mount_path
       THEN /\ Returns(c, <<>>)
            /\ UNCHANGED <<dstDirs, media_files, candidates, idx,
                           transferred, outcome>>
       ELSE \E lst \in get_media_files(args.media_dir) :
              /\ candidates' = [candidates EXCEPT ![c] = lst]
              /\ IF lst = <<>>
                 THEN /\ Returns(c, <<>>)
                      /\ UNCHANGED <<dstDirs, media_files, idx,
                                     transferred, outcome>>
                 ELSE /\ media_files' = [media_files EXCEPT ![c] = lst]
                      /\ dstDirs' = dstDirs \cup {<<>>}
                      /\ idx' = [idx EXCEPT ![c] = 1]
                      /\ transferred' = [transferred EXCEPT ![c] = <<>>]
                      /\ outcome' = [outcome EXCEPT ![c] = <<>>]
                      /\ pc' = [pc EXCEPT ![c] = "loop"]
                      /\ UNCHANGED results
    /\ UNCHANGED <<settings, has_birthtime, srcRoot, dcim, folders,
                   case_sensitive, dcim_other, src,
                   dst, src0, dst0, args, dest_file, faults>>
    /\ UNCHANGED <<parseVars, telemetryVars, extractVars, scanVars>>

\* str.lower() of the suffixes a file name of the model can end with.
lower(s) ==
    CASE s = ".MP4" -> ".mp4"
      [] s = ".JPG" -> ".jpg"
      [] s = ".THM" -> ".thm"
      [] s = ".RAW" -> ".raw"
      [] OTHER -> s

\* Faulty variant of endswith_mp4: the name is not lowered first.
endswith_mp4_as_spelled(dest) == Suffix(dest[2]) = ".mp4"

\* dest_file.lower().endswith(".mp4")
endswith_mp4(dest) == lower(Suffix(dest[2])) = ".mp4"

\* Faulty variant of return_code: success whatever was transferred.
return_code_always_success(recs) == <<0>>

\* Lines 331-354: 0 when the list transfer_files returned is not empty,
\* else 1.
return_code(recs) == IF recs # <<>> THEN <<0>> ELSE <<1>>

\* Lines 303-327: set up, then call transfer_files with the command's
\* source, destination, media directory, date format and move flag and with
\* no file extensions.
CommandStart ==
    /\ cmd_pc = "call"
    /\ MainTransferStart(CommandCaller)
    /\ cmd_pc' = "transfer"
    /\ UNCHANGED <<extract_tel, tel_idx, tel_log, cmd_rc>>

\* Lines 320-336 and 351-354: transfer_files is back.  An exception it
\* raised leaves the command; an empty list makes the command return 1; a
\* non-empty list makes it return 0, after the telemetry loop when
\* extraction is requested.
CommandReport ==
    /\ cmd_pc = "transfer"
    /\ pc[CommandCaller] = "idle"
    /\ LET r == Last(results[CommandCaller])
       IN  IF r.raised
           THEN /\ cmd_pc' = "raised"
                /\ UNCHANGED <<tel_idx, cmd_rc>>
           ELSE IF r.records # <<>> /\ extract_tel
                THEN /\ cmd_pc' = "telemetry"
                     /\ tel_idx' = 1
                     /\ UNCHANGED cmd_rc
                ELSE /\ cmd_pc' = "returned"
                     /\ cmd_rc' = return_code(r.records)
                     /\ UNCHANGED tel_idx
    /\ UNCHANGED <<extract_tel, tel_log>>
    /\ UNCHANGED <<transferVars, parseVars, telemetryVars, extractVars,
                   scanVars>>

\* Lines 338-349: one iteration of the telemetry loop.  For a record whose
\* destination ends in .mp4, extract_telemetry and save_telemetry run
\* inside the try; whatever either raises is caught and logged.
CommandTelemetry ==
    /\ cmd_pc = "telemetry"
    /\ LET recs == Last(results[CommandCaller]).records
       IN  /\ tel_idx <= Len(recs)
           /\ IF endswith_mp4(recs[tel_idx].dest)
              THEN \E saved \in BOOLEAN :
                     tel_log' = Append(tel_log, [dest |-> recs[tel_idx].dest,
                                                 saved |-> saved])
              ELSE UNCHANGED tel_log
    /\ tel_idx' = tel_idx + 1
    /\ UNCHANGED <<cmd_pc, extract_tel, cmd_rc>>
    /\ UNCHANGED <<transferVars, parseVars, telemetryVars, extractVars,
                   scanVars>>

\* Line 351: the telemetry loop is over.
CommandReturn ==
    /\ cmd_pc = "telemetry"
    /\ tel_idx > Len(Last(results[CommandCaller]).records)
    /\ cmd_pc' = "returned"
    /\ cmd_rc' = return_code(Last(results[CommandCaller]).records)
    /\ UNCHANGED <<extract_tel, tel_idx, tel_log>>
    /\ UNCHANGED <<transferVars, parseVars, telemetryVars, extractVars,
                   scanVars>>

\* The card of the command: one media folder with two videos, a photo and
\* a video whose extension is spelled in lower case, which the configured
\* extensions select too; each file was written on the first or on the
\* last day.
CommandPaths == { [folder |-> "100GOPRO", name |-> "GOPR0001.MP4"],
                  [folder |-> "100GOPRO", name |-> "GOPR0002.JPG"],
                  [folder |-> "100GOPRO", name |-> "GOPR0003.mp4"],
                  [folder |-> "100GOPRO", name |-> "GOPR0005.MP4"] }
CommandStats == {ScanStat, LastDayStat}
CommandFileExtensions == <<".MP4", ".JPG", ".mp4">>

InitCommand ==
    /\ settings = [media_dir |-> "",
                   date_format |-> DefaultDateFormat,
                   file_extensions |-> CommandFileExtensions]
    /\ has_birthtime = TRUE
    /\ srcRoot \in {"dir", "absent"}
    /\ dcim = IF srcRoot = "dir" THEN "dir" ELSE "absent"
    /\ case_sensitive = TRUE
    /\ dcim_other = {}
    /\ \E S \in SUBSET CommandPaths :
          /\ dcim = "absent" => S = {}
          /\ src \in [S -> CommandStats]
          /\ folders = {p.folder : p \in S}
    /\ src0 = src
    /\ args \in [media_dir : {""},
                 date_format : {"", NestedDateFormat},
                 file_extensions : {<<>>},
                 move : BOOLEAN,
                 all_dates : {FALSE}]
    /\ InitDestination
    /\ InitCallers({CommandCaller})
    /\ cmd_pc = "call"
    /\ extract_tel \in BOOLEAN
    /\ tel_idx = 1
    /\ tel_log = <<>>
    /\ cmd_rc = <<>>
    /\ NoParse
    /\ NoTelemetry
    /\ NoExtract
    /\ NoScan

NextCommand ==
    \/ CommandStart
    \/ \E c \in Callers : TransferCheck(c)
    \/ \E c \in Callers : TransferCopy(c)
    \/ \E c \in Callers : TransferReturn(c)
    \/ \E p \in CommandPaths : SourceVanishes(p)
    \/ CommandReport
    \/ CommandTelemetry
    \/ CommandReturn

SpecCommand == InitCommand /\ [][NextCommand]_vars

(***************************************************************************)
(* Two transfer_files invocations, in two processes, running at the same   *)
(* time against the same card and the same destination.  Their steps       *)
(* interleave at the file-system calls; the environment injects no fault.  *)
(***************************************************************************)
InitConcurrent ==
    /\ settings = [media_dir |-> "",
                   date_format |-> DefaultDateFormat,
                   file_extensions |-> DefaultFileExtensions]
    /\ has_birthtime = TRUE
    /\ srcRoot = "dir"
    /\ dcim = "dir"
    /\ case_sensitive = TRUE
    /\ dcim_other = {}
    /\ \E S \in SUBSET Paths :
          /\ src = [p \in S |-> LastDayStat]
          /\ folders = {p.folder : p \in S}
    /\ src0 = src
    /\ args \in [media_dir : {""},
                 date_format : {""},
                 file_extensions : {<<>>},
                 move : BOOLEAN,
                 all_dates : BOOLEAN]
    /\ InitDestination
    /\ pc = [c \in Callers |-> "idle"]
    /\ media_files = [c \in Callers |-> <<>>]
    /\ candidates = [c \in Callers |-> <<>>]
    /\ idx = [c \in Callers |-> 1]
    /\ dest_file = [c \in Callers |-> <<>>]
    /\ transferred = [c \in Callers |-> <<>>]
    /\ outcome = [c \in Callers |-> <<>>]
    /\ results = [c \in Callers |-> <<>>]
    /\ faults = MaxFaults
    /\ NoParse
    /\ NoTelemetry
    /\ NoExtract
    /\ NoScan
    /\ NoCommand

NextConcurrent ==
    \/ \E c \in Callers : TransferStart(c)
    \/ \E c \in Callers : TransferCheck(c)
    \/ \E c \in Callers : TransferCopy(c)
    \/ \E c \in Callers : TransferReturn(c)

SpecConcurrent == InitConcurrent /\ [][NextConcurrent]_vars

(***************************************************************************)
(* Interrupted invocations: the process running transfer_files is          *)
(* terminated from outside while a copy is in progress, and the transfer   *)
(* is run again.                                                           *)
(***************************************************************************)
\* Lines 243-247 cut short: shutil.copy2, or the copy shutil.move makes to
\* another file system, has written part of the destination file when the
\* process is terminated.  No except clause runs, nothing is returned and
\* the source file is as it was.
Kill(c) ==
    /\ pc[c] = "copy"
    /\ faults < MaxFaults
    /\ media_files[c][idx[c]] \in DOMAIN src
    /\ dst' = Put(Remove(dst, dest_file[c]), dest_file[c],
                  TruncatedCopyOf(media_files[c][idx[c]]))
    /\ faults' = faults + 1
    /\ Raises(c)
    /\ UNCHANGED <<settings, has_birthtime, srcRoot, dcim, folders,
                   case_sensitive, dcim_other, src, src0, dstDirs, dst0, args,
                   media_files, candidates, idx, dest_file, transferred,
                   outcome>>
    /\ UNCHANGED <<parseVars, telemetryVars, extractVars, scanVars>>
    /\ UNCHANGED commandVars

InitInterrupted ==
    /\ settings = [media_dir |-> "",
                   date_format |-> DefaultDateFormat,
                   file_extensions |-> DefaultFileExtensions]
    /\ has_birthtime = TRUE
    /\ srcRoot = "dir"
    /\ dcim = "dir"
    /\ case_sensitive = TRUE
    /\ dcim_other = {}
    /\ \E S \in SUBSET Paths :
          /\ src \in [S -> FileStats]
          /\ folders = {p.folder : p \in S}
    /\ src0 = src
    /\ args \in [media_dir : {""},
                 date_format : {""},
                 file_extensions : {<<>>},
                 move : BOOLEAN,
                 all_dates : BOOLEAN]
    /\ dstDirs = {} /\ dst = EmptyMap /\ dst0 = EmptyMap
    /\ InitCallers({"c1"})
    /\ NoParse
    /\ NoTelemetry
    /\ NoExtract
    /\ NoScan
    /\ NoCommand

NextInterrupted ==
    \/ Next
    \/ \E c \in Callers : Kill(c)

SpecInterrupted == InitInterrupted /\ [][NextInterrupted]_vars

(***************************************************************************)
(* Vocabulary of the claims about the transfer.                            *)
(***************************************************************************)
\* The best timestamp of the glossary, read from a stat record.
BestTimestamp(st) == IF has_birthtime THEN st.st_birthtime ELSE st.st_mtime

\* <destination>/<date folder>/<original name> of a file with stat st.
DestinationPath(p, st) == <<strftime(BestTimestamp(st), date_fmt), p.name>>

CompletedCalls(c) == Len(results[c])
NoFault == faults = 0
EmptyDestination == dst0 = EmptyMap

\* The caller is about to run the body of the loop for this file.
AtCandidate(c) == pc[c] = "loop" /\ idx[c] <= Len(media_files[c])
Candidate(c) == media_files[c][idx[c]]

\* C1: calling transfer_files a second time with the same arguments, with
\* no fault and no external change, returns an empty list and raises no
\* error (stated for first calls that returned).
C1_SecondCallTransfersNothing ==
    \A c \in Callers :
        (CompletedCalls(c) >= 2 /\ NoFault /\ ~results[c][1].raised)
            => (~results[c][2].raised /\ results[c][2].records = <<>>)

\* C2: within one invocation a candidate whose destination path exists is
\* skipped: no destination file changes, the candidate gets no record, the
\* loop goes on to the next file without an error; and no step of a
\* sequential invocation changes or removes an existing destination file.
C2_ExistingDestinationIsSkipped ==
    [][ /\ \A c \in Callers :
            ( /\ AtCandidate(c)
              /\ Candidate(c) \in DOMAIN src
              /\ DestinationPath(Candidate(c), src[Candidate(c)])
                    \in DOMAIN dst
              /\ <<pc[c], idx[c], results[c]>>' # <<pc[c], idx[c], results[c]>> )
            => ( /\ dst' = dst
                 /\ src' = src
                 /\ transferred'[c] = transferred[c]
                 /\ results'[c] = results[c]
                 /\ pc'[c] = "loop"
                 /\ idx'[c] = idx[c] + 1
                 /\ outcome'[c] = Append(outcome[c], "skipped") )
        /\ \A t \in DOMAIN dst : t \in DOMAIN dst' /\ dst'[t] = dst[t]
      ]_vars

\* C2 witness: a candidate was skipped because an earlier file of the same
\* batch had been written to its destination path.
C2_Witness ==
    \E c \in Callers :
        /\ pc[c] = "loop"
        /\ idx[c] > 1
        /\ outcome[c][idx[c] - 1] = "skipped"
        /\ \E i \in 1..Len(transferred[c]) :
              transferred[c][i].dest = dest_file[c]

\* The state right after the selection of a call, before any file of the
\* batch is processed or lost.
JustSelected(c) ==
    /\ pc[c] = "loop"
    /\ idx[c] = 1
    /\ Range(candidates[c]) \subseteq DOMAIN src

LatestCalendarDate(c) ==
    CHOOSE d \in {date(BestTimestamp(src[f])) : f \in Range(candidates[c])} :
        \A f \in Range(candidates[c]) : date(BestTimestamp(src[f])) <= d

\* C3: without all-dates mode the files the loop goes on to transfer are
\* exactly the candidates whose best-timestamp date is the maximum date over
\* all candidates, each once, in the candidates' order.
C3_LatestDaySelection ==
    \A c \in Callers :
        (JustSelected(c) /\ ~args.all_dates)
            => /\ media_files[c] =
                    SelectSeq(candidates[c],
                              LAMBDA f : date(BestTimestamp(src[f]))
                                            = LatestCalendarDate(c))
               /\ Range(media_files[c]) =
                    {f \in Range(candidates[c]) :
                        \A g \in Range(candidates[c]) :
                            date(BestTimestamp(src[g]))
                                <= date(BestTimestamp(src[f]))}

\* C3 witness: two files of the latest date with different times of day are
\* both selected and a file of an earlier date is dropped.
C3_Witness ==
    \E c \in Callers :
        /\ JustSelected(c)
        /\ ~args.all_dates
        /\ Len(candidates[c]) = 3
        /\ Len(media_files[c]) = 2
        /\ BestTimestamp(src[media_files[c][1]])
              # BestTimestamp(src[media_files[c][2]])

\* C4: a failure on one file is caught for that file only: no call raises,
\* a returning call has processed every file of its batch and its records
\* are exactly the files that were transferred.
C4_FailureIsIsolated ==
    \A c \in Callers :
        /\ \A r \in 1..Len(results[c]) : ~results[c][r].raised
        /\ (pc[c] = "idle" /\ Len(results[c]) > 0 /\ media_files[c] # <<>>)
              => Len(outcome[c]) = Len(media_files[c])

\* The records and files a first call against an empty destination is
\* claimed to produce: one per selected file, in selection order.
RecordOf(f) == [source |-> f, dest |-> DestinationPath(f, src0[f])]
FirstCallDone(c) ==
    /\ pc[c] = "idle"
    /\ CompletedCalls(c) = 1
    /\ ~results[c][1].raised
    /\ EmptyDestination
    /\ NoFault

\* C8 as claimed: every selected file is at its destination path, with one
\* record each in selection order, and nothing else is under the destination.
C8_EverySelectedFileTransferred ==
    \A c \in Callers :
        FirstCallDone(c)
            => /\ results[c][1].records =
                    [i \in 1..Len(media_files[c]) |-> RecordOf(media_files[c][i])]
               /\ \A f \in Range(media_files[c]) :
                    /\ RecordOf(f).dest \in DOMAIN dst
                    /\ dst[RecordOf(f).dest] = CopyOf(f)
               /\ DOMAIN dst = {RecordOf(f).dest : f \in Range(media_files[c])}

\* The selected files that are the first of the batch with their
\* destination path.
FirstWithPath(lst) ==
    {i \in 1..Len(lst) :
        \A j \in 1..(i - 1) : RecordOf(lst[j]).dest # RecordOf(lst[i]).dest}

RECURSIVE ExpectedRecords(_)
ExpectedRecords(lst) ==
    IF lst = <<>> THEN <<>>
    ELSE IF Len(lst) \in FirstWithPath(lst)
         THEN Append(ExpectedRecords(Front(lst)), RecordOf(Last(lst)))
         ELSE ExpectedRecords(Front(lst))

\* C8 amended: the same for every selected file whose destination path is
\* not the destination path of an earlier selected file; a later file with
\* the same path is skipped, gets no record and is not written.
C8_FirstOfEachPathTransferred ==
    \A c \in Callers :
        FirstCallDone(c)
            => /\ results[c][1].records = ExpectedRecords(media_files[c])
               /\ \A i \in FirstWithPath(media_files[c]) :
                    /\ RecordOf(media_files[c][i]).dest \in DOMAIN dst
                    /\ dst[RecordOf(media_files[c][i]).dest]
                          = CopyOf(media_files[c][i])
               /\ DOMAIN dst = {RecordOf(f).dest : f \in Range(media_files[c])}

\* C8 witness: a first call against an empty destination transferred two
\* files and skipped a third whose path the first had taken.
C8_Witness ==
    \E c \in Callers :
        /\ FirstCallDone(c)
        /\ Len(media_files[c]) = 3
        /\ Len(results[c][1].records) = 2

\* The calendar day a timestamp lies in.
DayOf(ts) ==
    CHOOSE d \in 0..MaxDay :
        d * TicksPerDay <= ts /\ ts < (d + 1) * TicksPerDay

\* C19: during latest-day selection every candidate is in exactly one
\* bucket, the one keyed by the calendar date of its best timestamp
\* (creation time where the platform has it, else modification time); no
\* bucket is empty or holds anything but candidates, each once.
C19_BucketsPartitionCandidates ==
    \A c \in Callers :
        (JustSelected(c) /\ ~args.all_dates)
            => LET buckets == files_by_date(candidates[c])
               IN  /\ \A f \in Range(candidates[c]) :
                         /\ Cardinality({k \in DOMAIN buckets :
                                            f \in Range(buckets[k])}) = 1
                         /\ DayOf(BestTimestamp(src[f])) \in DOMAIN buckets
                         /\ f \in Range(buckets[DayOf(BestTimestamp(src[f]))])
                   /\ \A k \in DOMAIN buckets :
                         /\ buckets[k] # <<>>
                         /\ Range(buckets[k]) \subseteq Range(candidates[c])
                         /\ Cardinality(Range(buckets[k])) = Len(buckets[k])

\* C19 witness: three candidates dated by their modification time fall
\* into two buckets.
C19_Witness ==
    \E c \in Callers :
        /\ JustSelected(c)
        /\ ~args.all_dates
        /\ ~has_birthtime
        /\ Len(candidates[c]) = 3
        /\ Cardinality(DOMAIN files_by_date(candidates[c])) = 2

\* C20: for every date format, one with several path components
\* included, a call that meets no fault raises nothing, and the date
\* folder of every file of its batch exists with all its parents and
\* holds the file.
C20_DateFolderEnsured ==
    \A c \in Callers :
        (NoFault /\ pc[c] = "idle" /\ Len(results[c]) >= 1)
            => /\ ~results[c][Len(results[c])].raised
               /\ \A f \in Range(media_files[c]) :
                     LET dir == strftime(BestTimestamp(src0[f]), date_fmt)
                     IN  /\ Prefixes(dir) \subseteq dstDirs
                         /\ <<dir, f.name>> \in DOMAIN dst
(***************************************************************************)
(* Claims about the transfer command.                                      *)
(***************************************************************************)
\* The command is inside its transfer_files call.
CommandTransferring == cmd_pc = "transfer"

\* C21: the transfer command narrows its batch to the files of the most
\* recent calendar date, as operations.transfer_files does without an
\* all-dates request: on the same listing of the same volume the command
\* goes on to transfer the batch operations.transfer_files selects.
C21_CommandSelectsLatestDay ==
    (CommandTransferring /\ JustSelected(CommandCaller))
        => /\ media_files[CommandCaller]
                 = select_latest_day(candidates[CommandCaller])
           /\ \A f \in Range(media_files[CommandCaller]) :
                 date(BestTimestamp(src[f])) = LatestCalendarDate(CommandCaller)

(***************************************************************************)
(* Claims about concurrent invocations.                                    *)
(***************************************************************************)
\* Caller c completes the copy or move of its current file in this step.
Writes(c) ==
    /\ pc[c] = "copy"
    /\ pc'[c] = "loop"
    /\ Len(transferred'[c]) = Len(transferred[c]) + 1

\* Caller d has written path t, during the invocation it is running or
\* during one that has returned.
HasWritten(d, t) ==
    \/ \E i \in 1..Len(transferred[d]) : transferred[d][i].dest = t
    \/ \E r \in 1..Len(results[d]) :
          \E i \in 1..Len(results[d][r].records) :
              results[d][r].records[i].dest = t

\* C22: the existence check and the write are two separate steps, so the
\* no-overwrite guarantee is a sequential one.  A write lands on a path
\* that exists only when another invocation wrote that path after the
\* writer's own check found it absent (the race of the claim, whose
\* reachability C22_Witness shows); a file that was at the destination
\* before the invocations started is never replaced.
C22_OverwriteOnlyByRace ==
    [][ /\ \A c \in Callers :
              (Writes(c) /\ dest_file[c] \in DOMAIN dst)
                  => \E d \in Callers \ {c} :
                        /\ HasWritten(d, dest_file[c])
                        /\ dest_file[c] \notin DOMAIN dst0
        /\ \A t \in DOMAIN dst0 : t \in DOMAIN dst' /\ dst'[t] = dst0[t]
      ]_vars

\* C22 witness: both invocations have returned, each with a record for the
\* same destination path, and the path holds what the later writer copied.
C22_Witness ==
    \E t \in DOMAIN dst :
        /\ \A c \in Callers :
              /\ pc[c] = "idle"
              /\ Len(results[c]) = 1
              /\ ~results[c][1].raised
              /\ \E i \in 1..Len(results[c][1].records) :
                    results[c][1].records[i].dest = t
        /\ results["c1"][1].records[1].source
              # results["c2"][1].records[1].source

(***************************************************************************)
(* Claims about the command's telemetry loop and return value.             *)
(***************************************************************************)
\* The names that end in .mp4 in some letter case.
IsVideoName(name) == Suffix(name) \in {".MP4", ".mp4"}

\* What the command's transfer_files call did with the i-th file of its
\* batch, and the destination path of that file.
BatchOutcome(i) == outcome[CommandCaller][i]
BatchDest(i) ==
    LET f == media_files[CommandCaller][i]
    IN  DestinationPath(f, src0[f])
BatchDone ==
    /\ pc[CommandCaller] = "idle"
    /\ Len(results[CommandCaller]) = 1
    /\ ~results[CommandCaller][1].raised
CommandRecords == results[CommandCaller][1].records
AttemptedDests == [i \in 1..Len(tel_log) |-> tel_log[i].dest]
VideoDests(recs) ==
    LET videos == SelectSeq(recs, LAMBDA r : IsVideoName(r.dest[2]))
    IN  [i \in 1..Len(videos) |-> videos[i].dest]

\* C23: with extraction requested, an extraction is attempted only once the
\* whole batch is over; the attempts made so far are the video records the
\* telemetry loop has passed, each once and in record order, and at the
\* return they are all the video records of the run, whatever attempts
\* failed; no attempt is made for a file that was skipped or failed, and
\* none at all without the request.
C23_TelemetryAfterBatch ==
    /\ (cmd_pc = "telemetry" \/ tel_log # <<>>)
          => /\ BatchDone
             /\ extract_tel
             /\ Len(outcome[CommandCaller]) = Len(media_files[CommandCaller])
    /\ cmd_pc = "telemetry"
          => AttemptedDests
                = VideoDests(SubSeq(CommandRecords, 1, tel_idx - 1))
    /\ (cmd_pc = "returned" /\ extract_tel)
          => AttemptedDests = VideoDests(CommandRecords)
    /\ \A k \in 1..Len(tel_log) :
          /\ \E i \in 1..Len(outcome[CommandCaller]) :
                BatchOutcome(i) = "transferred" /\ BatchDest(i) = tel_log[k].dest
          /\ \A i \in 1..Len(outcome[CommandCaller]) :
                BatchOutcome(i) # "transferred" => BatchDest(i) # tel_log[k].dest

\* C23 witness: the command returned after two attempts, the first of which
\* failed, for videos spelled .MP4 and .mp4, and a third video of the batch
\* got no attempt because it was skipped.
C23_Witness ==
    /\ cmd_pc = "returned"
    /\ Len(tel_log) = 2
    /\ ~tel_log[1].saved
    /\ tel_log[2].saved
    /\ Suffix(tel_log[1].dest[2]) # Suffix(tel_log[2].dest[2])
    /\ \E i \in 1..Len(outcome[CommandCaller]) :
          /\ BatchOutcome(i) = "skipped"
          /\ IsVideoName(media_files[CommandCaller][i].name)

Steps(c) == pc'[c] # pc[c] \/ idx'[c] # idx[c]

\* C25: a step of transfer_files changes the source volume only by moving
\* a file away, in move mode, in the very step that appends the file's
\* record to transferred_files; every other source file keeps its place and
\* its attributes, in copy mode every file does; a file that is skipped or
\* fails stays where it is; and the list a completed loop returns is the
\* list of those records.
C25_SourceFrame ==
    [][ \A c \in Callers :
          Steps(c) =>
            LET moved == IF Writes(c) /\ args.move
                         THEN {Last(transferred'[c]).source} ELSE {}
            IN  /\ \A p \in DOMAIN src' : p \in DOMAIN src /\ src'[p] = src[p]
                /\ DOMAIN src \ DOMAIN src' = moved
                /\ \A p \in moved : p = media_files[c][idx[c]]
                /\ (Len(outcome'[c]) = Len(outcome[c]) + 1
                      /\ Last(outcome'[c]) \in {"skipped", "error"}
                      /\ media_files[c][idx[c]] \in DOMAIN src)
                     => media_files[c][idx[c]] \in DOMAIN src'
                /\ (pc[c] = "loop" /\ pc'[c] = "idle"
                      /\ ~Last(results'[c]).raised)
                     => Last(results'[c]).records = transferred[c]
      ]_vars

\* C25 witness: a move-mode run has returned after moving one file away and
\* skipping or failing another, which is still on the card.
C25_Witness ==
    \E c \in Callers :
        /\ args.move
        /\ pc[c] = "idle"
        /\ Len(results[c]) = 1
        /\ Len(results[c][1].records) = 1
        /\ results[c][1].records[1].source \notin DOMAIN src
        /\ \E i \in 1..Len(outcome[c]) :
              /\ outcome[c][i] \in {"skipped", "error"}
              /\ media_files[c][i] \in DOMAIN src
              /\ src[media_files[c][i]] = src0[media_files[c][i]]

\* The destination files that are truncated copies.
Truncated == {t \in DOMAIN dst : ~dst[t].whole}

\* C26: a truncated file left at a destination path stays as it is through
\* every later step of every later run: a run that comes to a file with
\* that destination path skips it, and no run ever holds or returns a
\* record for the path.
C26_TruncatedFileStays ==
    [][ \A t \in Truncated :
          /\ t \in DOMAIN dst'
          /\ dst'[t] = dst[t]
          /\ \A c \in Callers :
                /\ ~HasWritten(c, t)'
                /\ ( /\ AtCandidate(c)
                     /\ Candidate(c) \in DOMAIN src
                     /\ DestinationPath(Candidate(c), src[Candidate(c)]) = t
                     /\ Steps(c) )
                   => /\ outcome'[c] = Append(outcome[c], "skipped")
                      /\ pc'[c] = "loop"
                      /\ idx'[c] = idx[c] + 1
      ]_vars

\* C26 witness: the first run was terminated during a copy; the second run
\* ran to its end, skipped the file, returned without a record for it, and
\* the truncated file is still at the destination path.
C26_Witness ==
    \E c \in Callers :
        /\ pc[c] = "idle"
        /\ Len(results[c]) = 2
        /\ results[c][1].raised
        /\ ~results[c][2].raised
        /\ \E i \in 1..Len(outcome[c]) :
              /\ outcome[c][i] = "skipped"
              /\ DestinationPath(media_files[c][i], src0[media_files[c][i]])
                    \in Truncated
        /\ Len(outcome[c]) = Len(media_files[c])
        /\ faults = 1
        /\ src = src0

\* The media folder a call names, by its argument or by the settings, and
\* the candidates on the card before the first call.
NamedMediaDir ==
    IF args.media_dir # "" THEN args.media_dir ELSE settings.media_dir
InitialCandidates ==
    {p \in DOMAIN src0 : NamedMediaDir \in {"", p.folder}}
InitialDates == {DayOf(BestTimestamp(src0[p])) : p \in InitialCandidates}

\* The k-th latest of a set of dates.
KthLatest(D, k) == CHOOSE d \in D : Cardinality({e \in D : e > d}) = k - 1

\* Repeated move-mode calls with latest-day selection, from an empty
\* destination, on candidates of one subfolder, with no failure of any
\* file-system call.
DrainingRuns(c) ==
    /\ args.move
    /\ ~args.all_dates
    /\ EmptyDestination
    /\ NoFault
    /\ Cardinality({p.folder : p \in InitialCandidates}) <= 1
    /\ \A r \in 1..Len(results[c]) : ~results[c][r].raised

\* C27: under these conditions the r-th run moves exactly the candidates of
\* the r-th latest date, each once; once as many runs have returned as
\* there are dates no candidate is left on the card; and every run after
\* that returns an empty list.
C27_OneDatePerRunDescending ==
    \A c \in Callers :
        DrainingRuns(c)
            => /\ \A r \in 1..Len(results[c]) :
                     LET recs == results[c][r].records
                     IN  IF r <= Cardinality(InitialDates)
                         THEN /\ {recs[i].source : i \in 1..Len(recs)} =
                                   {p \in InitialCandidates :
                                       DayOf(BestTimestamp(src0[p]))
                                          = KthLatest(InitialDates, r)}
                              /\ \A i, j \in 1..Len(recs) :
                                    recs[i].source = recs[j].source => i = j
                         ELSE recs = <<>>
               /\ (pc[c] = "idle"
                     /\ Len(results[c]) >= Cardinality(InitialDates))
                    => DOMAIN src \cap InitialCandidates = {}

\* C27 witness: the card held files of two dates in one subfolder; the
\* first run moved the later date's files, the second the earlier date's,
\* and no candidate is left.
C27_Witness ==
    \E c \in Callers :
        /\ DrainingRuns(c)
        /\ pc[c] = "idle"
        /\ Len(results[c]) = 2
        /\ Cardinality(InitialDates) = 2
        /\ Cardinality(InitialCandidates) = 2
        /\ Len(results[c][1].records) = 1
        /\ Len(results[c][2].records) = 1
        /\ src = EmptyMap

====
